---- MODULE Spec2Model ----
(***************************************************************************)
(* Model of LRUCache<KeyType, ValueType> (src/threadSafe.cpp): a list of   *)
(* (key, value) nodes in recency order, a hash map from key to list        *)
(* iterator, a capacity and one mutex.                                     *)
(*                                                                         *)
(* std::list iterators are stable: an iterator names a node, not a         *)
(* position.  Nodes therefore have identities (NodeIds); usage_list is the *)
(* sequence of node ids from front to back, heap holds the pair stored in  *)
(* each live node and cache_map maps a key to a node id.                   *)
(***************************************************************************)
EXTENDS Integers, Sequences, FiniteSets, TLC

\* ------------------------------------------------------------------ bounds
NumKeys == 3
NumValues == 2
MaxCapacity == 3
\* the universe of the threaded specification
NumThreads == 2
ThreadKeys == 2
ThreadValues == 2
ThreadCapacity == 2
\* calls that an allocation failure may end in one run
MaxFailures == 1

Keys == 1..NumKeys
Values == 1..NumValues
Capacities == 0..MaxCapacity
Threads == 1..NumThreads
NodeIds == 1..(NumKeys + MaxFailures)

\* the past-the-end iterator (cache_map.end())
End == 0
\* no thread owns the mutex
Unlocked == 0

VARIABLES
    capacity,     \* size_t capacity
    usage_list,   \* std::list<std::pair<K,V>>: node ids, front first
    heap,         \* the pair held by each live list node
    cache_map,    \* std::unordered_map<K, list::iterator>
    status,       \* "ok", or "aborted" once the process has been killed
    last,         \* the last completed call: arguments, result, state before
    evicted,      \* keys evicted by capacity pressure and not put since
    written,      \* per resident key: the value of the latest put of it
    watch,        \* one observed key and what was touched since its last touch
    failures,     \* number of calls that std::bad_alloc has left so far
    cache_mutex,  \* std::mutex: Unlocked or the owning thread
    pc,           \* per thread: position in the operation it runs
    call,         \* per thread: the operation invoked and its arguments
    it,           \* per thread: the local iterator `it`
    ret,          \* what the step just taken returned, if it ended a call
    snap          \* cache state when the mutex was last acquired

cacheVars == <<capacity, usage_list, heap, cache_map>>
threadVars == <<cache_mutex, pc, call, it, ret, snap>>
histVars == <<last, evicted, written, watch, failures>>
vars == <<capacity, usage_list, heap, cache_map, status, last, evicted,
          written, watch, failures, cache_mutex, pc, call, it, ret, snap>>

\* ------------------------------------------------------- cache as a value
EmptyFn == [x \in {} |-> 0]

\* LRUCache(size_t size) : capacity(size) {}
LRUCache(size) ==
    [capacity |-> size, usage_list |-> <<>>,
     heap |-> EmptyFn, cache_map |-> EmptyFn]

\* The four data members as one record, so that statements are functions.
Cur ==
    [capacity |-> capacity, usage_list |-> usage_list,
     heap |-> heap, cache_map |-> cache_map]

Set0(c) ==
    /\ usage_list = LRUCache(c).usage_list
    /\ heap = LRUCache(c).heap
    /\ cache_map = LRUCache(c).cache_map
    /\ capacity = LRUCache(c).capacity

Set(S) ==
    /\ usage_list' = S.usage_list
    /\ heap' = S.heap
    /\ cache_map' = S.cache_map
    /\ capacity' = S.capacity

\* ------------------------------------------------------ container helpers
Restrict(f, D) == [x \in D |-> f[x]]

Assign(f, k, v) == [x \in DOMAIN f \cup {k} |-> IF x = k THEN v ELSE f[x]]

RECURSIVE Without(_, _)
\* the sequence s with every occurrence of n removed, order kept
Without(s, n) ==
    IF s = <<>> THEN <<>>
    ELSE IF Head(s) = n THEN Without(Tail(s), n)
    ELSE <<Head(s)>> \o Without(Tail(s), n)

\* usage_list.size()
size(S) == Len(S.usage_list)

\* cache_map.find(key): the iterator stored for key, or end()
find(S, key) ==
    IF key \in DOMAIN S.cache_map THEN S.cache_map[key] ELSE End

\* Mutant of splice_begin: the node changes places with the front node
\* instead of being relinked before it.
splice_swap(S, n) ==
    [S EXCEPT !.usage_list =
        [i \in 1..Len(S.usage_list) |->
            IF i = 1 THEN n
            ELSE IF S.usage_list[i] = n THEN S.usage_list[1]
            ELSE S.usage_list[i]]]

\* Mutant of splice_begin: the list is rotated until the node is first.
splice_rotate(S, n) ==
    LET p == CHOOSE i \in 1..Len(S.usage_list) : S.usage_list[i] = n IN
    [S EXCEPT !.usage_list =
        SubSeq(S.usage_list, p, Len(S.usage_list))
            \o SubSeq(S.usage_list, 1, p - 1)]

\* usage_list.splice(usage_list.begin(), usage_list, it): relink node it first
splice_begin(S, n) ==
    [S EXCEPT !.usage_list = <<n>> \o Without(S.usage_list, n)]

\* it->second->second = value
set_value(S, n, value) ==
    [S EXCEPT !.heap = Assign(S.heap, n, [first |-> S.heap[n].first,
                                          second |-> value])]

\* auto last = usage_list.end(); last--;   (list not empty)
back(S) == S.usage_list[Len(S.usage_list)]

\* cache_map.erase(key)
map_erase(S, key) ==
    [S EXCEPT !.cache_map = Restrict(S.cache_map, DOMAIN S.cache_map \ {key})]

\* usage_list.pop_back(): unlink and free the last node (list not empty)
pop_back(S) ==
    [S EXCEPT !.usage_list = SubSeq(S.usage_list, 1, Len(S.usage_list) - 1),
              !.heap = Restrict(S.heap, DOMAIN S.heap \ {back(S)})]

\* Mutant of list_erase: the node after the one named is unlinked (the named
\* one when it is the last).
list_erase_next(S, n) ==
    LET p == CHOOSE i \in 1..Len(S.usage_list) : S.usage_list[i] = n
        m == IF p < Len(S.usage_list) THEN S.usage_list[p + 1] ELSE n
    IN [S EXCEPT !.usage_list = Without(S.usage_list, m),
                 !.heap = Restrict(S.heap, DOMAIN S.heap \ {m})]

\* usage_list.erase(it): unlink and free node it
list_erase(S, n) ==
    [S EXCEPT !.usage_list = Without(S.usage_list, n),
              !.heap = Restrict(S.heap, DOMAIN S.heap \ {n})]

\* The node the allocator hands out for a pair with this key.  Any free node
\* will do, since the program never compares addresses; this allocator takes
\* the first free node counting up from the key, so that equal caches are
\* laid out equally.
new_node(S, key) ==
    LET free == NodeIds \ DOMAIN S.heap
        dist(n) == (n - key) % (NumKeys + MaxFailures)
    IN CHOOSE n \in free : \A m \in free : dist(n) <= dist(m)

\* usage_list.emplace_front(key, value)
emplace_front(S, key, value) ==
    LET n == new_node(S, key) IN
    [S EXCEPT !.usage_list = <<n>> \o S.usage_list,
              !.heap = Assign(S.heap, n, [first |-> key, second |-> value])]

\* cache_map[key] = usage_list.begin()
map_set_begin(S, key) ==
    [S EXCEPT !.cache_map = Assign(S.cache_map, key, S.usage_list[1])]


\* ----------------------------------------------------------------- results
Void == [value |-> 0, kind |-> "void"]
NotFound == [value |-> 0, kind |-> "NotFound"]
Aborted == [value |-> 0, kind |-> "abort"]
Value(v) == [value |-> v, kind |-> "value"]
\* std::bad_alloc leaves the call: an allocation inside it has failed
BadAlloc == [value |-> 0, kind |-> "bad_alloc"]
\* no call has returned in this step
NoResult == [value |-> 0, kind |-> "none"]

Outcome(S, res) == [state |-> S, res |-> res]

\* ------------------------------------------------- the four member functions
\* Each gives the set of outcomes of one whole call made in cache state S:
\* the state it leaves and what the caller gets.

\* Mutant of get: the lookup is cache_map[key], which default-constructs a
\* record for an absent key before the miss is reported.
get_creating(S, key) ==
    IF key \in DOMAIN S.cache_map
    THEN {Outcome(splice_begin(S, S.cache_map[key]),
                  Value(S.heap[S.cache_map[key]].second))}
    ELSE {Outcome([S EXCEPT !.cache_map = Assign(S.cache_map, key, End)],
                  NotFound)}

\* Mutant of get: the value is returned but the entry is not moved.
get_no_touch(S, key) ==
    LET i == find(S, key) IN
    IF i = End
    THEN {Outcome(S, NotFound)}
    ELSE {Outcome(S, Value(S.heap[i].second))}

\* ValueType get(const KeyType& key)
get(S, key) ==
    LET i == find(S, key) IN
    IF i = End
    THEN {Outcome(S, NotFound)}
    ELSE {Outcome(splice_begin(S, i), Value(S.heap[i].second))}

\* Mutant of put_update: the fullness test comes before the lookup, so an
\* update made at full capacity evicts the back entry first.
put_update_evicting(S, i, value) ==
    IF size(S) = S.capacity /\ back(S) # i
    THEN set_value(splice_begin(pop_back(map_erase(S, S.heap[back(S)].first)),
                                i), i, value)
    ELSE set_value(splice_begin(S, i), i, value)

\* Mutant of put_update: the entry is moved but the value is not stored.
put_update_no_store(S, i, value) == splice_begin(S, i)

\* put, key resident: move to front, overwrite the value
put_update(S, i, value) == set_value(splice_begin(S, i), i, value)

\* Mutant of put_evict: the front entry is evicted instead of the back one.
put_evict_front(S) ==
    list_erase(map_erase(S, S.heap[S.usage_list[1]].first), S.usage_list[1])

\* Mutant of put_evict: the index record of the evicted entry is kept.
put_evict_stale(S) == pop_back(S)

\* put, the eviction block on a list that is not empty
put_evict(S) == pop_back(map_erase(S, S.heap[back(S)].first))

\* put, the insertion of the new pair
put_insert(S, key, value) == map_set_begin(emplace_front(S, key, value), key)

\* put, the eviction block on an EMPTY list (capacity 0): `last--` steps
\* before begin(), last->first reads no element and pop_back() unlinks and
\* frees the list's own sentinel.  Undefined behaviour: either the process is
\* killed (glibc: "free(): invalid pointer"), or the block reads some key g,
\* erases it from the map, removes nothing from the list, and put goes on.
\* get in which one allocation fails. Key absent: the message of the
\* range_error cannot be built and nothing has been touched. Key resident:
\* the copy of the value to return fails after the splice.
get_failing(S, key) ==
    LET i == find(S, key) IN
    IF i = End
    THEN {Outcome(S, BadAlloc)}
    ELSE {Outcome(splice_begin(S, i), BadAlloc)}

\* put in which one allocation fails. Key resident: the copy of the value
\* fails after the splice. Key absent: the eviction, if due, has been done;
\* either emplace_front fails and nothing is linked, or cache_map[key] fails
\* with the new entry already linked at the front.
put_failing(S, key, value) ==
    LET i == find(S, key) IN
    IF i # End
    THEN {Outcome(splice_begin(S, i), BadAlloc)}
    ELSE IF size(S) = S.capacity /\ S.usage_list = <<>>
         THEN {}
         ELSE LET E == IF size(S) = S.capacity THEN put_evict(S) ELSE S IN
              {Outcome(E, BadAlloc),
               Outcome(emplace_front(E, key, value), BadAlloc)}

put_evict_empty(S, key, value) ==
    {Outcome(S, Aborted)} \cup
    {Outcome(put_insert(map_erase(S, g), key, value), Void) : g \in Keys}

\* void put(const KeyType& key, const ValueType& value)
put(S, key, value) ==
    LET i == find(S, key) IN
    IF i # End
    THEN {Outcome(put_update(S, i, value), Void)}
    ELSE IF size(S) = S.capacity
         THEN IF S.usage_list = <<>>
              THEN put_evict_empty(S, key, value)
              ELSE {Outcome(put_insert(put_evict(S), key, value), Void)}
         ELSE {Outcome(put_insert(S, key, value), Void)}

\* Mutant of erase: a miss evicts the back entry instead of doing nothing.
erase_miss_evicts(S, key) ==
    IF key \in DOMAIN S.cache_map
    THEN {Outcome(map_erase(list_erase(S, S.cache_map[key]), key), Void)}
    ELSE {Outcome(IF S.usage_list = <<>> THEN S ELSE put_evict(S), Void)}

\* Mutant of erase: the entry leaves the list but its index record stays.
erase_list_only(S, key) ==
    IF key \in DOMAIN S.cache_map
    THEN {Outcome(list_erase(S, S.cache_map[key]), Void)}
    ELSE {Outcome(S, Void)}

\* void erase(const KeyType& key)
erase(S, key) ==
    LET i == find(S, key) IN
    IF i # End
    THEN {Outcome(map_erase(list_erase(S, i), key), Void)}
    ELSE {Outcome(S, Void)}

RECURSIVE resize_loop_front(_, _)
\* Mutant of resize_loop: the loop removes the front entry, not the back one.
resize_loop_front(S, new_capacity) ==
    IF size(S) > new_capacity
    THEN resize_loop_front(put_evict_front(S), new_capacity)
    ELSE S

RECURSIVE resize_loop(_, _)
\* while (usage_list.size() > new_capacity) { erase back from map; pop_back }
resize_loop(S, new_capacity) ==
    IF size(S) > new_capacity
    THEN resize_loop(put_evict(S), new_capacity)
    ELSE S

\* Mutant of resize: the loop test is >=, so a resize to the current size
\* evicts as well.
resize_geq(S, new_capacity) ==
    {Outcome([resize_loop(IF size(S) = new_capacity /\ size(S) > 0
                          THEN put_evict(S) ELSE S, new_capacity)
                 EXCEPT !.capacity = new_capacity],
             Void)}

\* void resize(size_t new_capacity)
resize(S, new_capacity) ==
    {Outcome([resize_loop(S, new_capacity) EXCEPT !.capacity = new_capacity],
             Void)}

\* ------------------------------------------------------------- bookkeeping
resident(S) == DOMAIN S.cache_map

\* the keys held by the entries of the recency sequence
list_keys(S) == {S.heap[S.usage_list[i]].first : i \in 1..Len(S.usage_list)}

\* the (key, value) pairs held by the entries of the recency sequence
entries(S) == {S.heap[S.usage_list[i]] : i \in 1..Len(S.usage_list)}

\* the keys of the recency sequence, front first
key_seq(S) == [i \in 1..Len(S.usage_list) |-> S.heap[S.usage_list[i]].first]

\* the (key, value) pairs of the recency sequence, front first
pair_seq(S) == [i \in 1..Len(S.usage_list) |-> S.heap[S.usage_list[i]]]

Call(op, key, value, new_capacity) ==
    [key |-> key, value |-> value, new_capacity |-> new_capacity, op |-> op]

NoCall == Call("none", 0, 0, 0)

\* the outcomes of call c made in state S
outcomes(S, c) ==
    CASE c.op = "get" -> get(S, c.key)
      [] c.op = "put" -> put(S, c.key, c.value)
      [] c.op = "erase" -> erase(S, c.key)
      [] c.op = "resize" -> resize(S, c.new_capacity)
      [] OTHER -> {}

\* keys of the entries that capacity pressure popped during call c: the back
\* entry when a put finds no record of its key and the sequence full, the
\* entries behind the ones a resize has kept. It is the popped entry that
\* counts, also when another entry with the same key stays linked.
pressured(c, pre, post) ==
    CASE c.op = "put" ->
            IF /\ find(pre, c.key) = End
               /\ size(pre) = pre.capacity
               /\ pre.usage_list # <<>>
            THEN {pre.heap[back(pre)].first} ELSE {}
      [] c.op = "resize" ->
            {pre.heap[pre.usage_list[i]].first :
                i \in (size(post) + 1)..size(pre)}
      [] OTHER -> {}

evicted_after(ev, c, pre, post) ==
    (ev \cup pressured(c, pre, post)) \ (IF c.op = "put" THEN {c.key} ELSE {})

\* the value of the latest put of each key that is still in the sequence,
\* after call c has ended with result res in state post
written_after(w, c, res, post) ==
    LET w1 == IF c.op = "put" /\ res = Void
              THEN Assign(w, c.key, c.value) ELSE w
    IN Restrict(w1, DOMAIN w1 \cap list_keys(post))

\* The observation of key k outside a window: k has not been touched, or an
\* erase or a shrinking resize has come since its last touch.
Unwatched(k) == [key |-> k, others |-> {}, cap |-> 0, open |-> FALSE,
                 lost |-> "no"]

\* the key a call touches: a get that hits, a put that completes
touched(c, res) ==
    IF \/ c.op = "get" /\ res.kind = "value"
       \/ c.op = "put" /\ res = Void
    THEN {c.key} ELSE {}

\* how the observed key k left the sequence in a call: "back" when a put of
\* a key that was not resident found k at the back, "other" otherwise
leaves(k, c, pre) ==
    IF /\ c.op = "put"
       /\ c.key \notin resident(pre)
       /\ pre.usage_list # <<>>
       /\ pre.heap[back(pre)].first = k
    THEN "back" ELSE "other"

\* the observation after call c has ended with result res: a touch of the
\* observed key opens a window at the capacity then in force, an erase or a
\* shrinking resize closes it, any other call adds the key it touches
watch_after(w, c, res, pre, post) ==
    IF w.key \in touched(c, res)
    THEN [key |-> w.key, others |-> {}, cap |-> post.capacity, open |-> TRUE,
          lost |-> "no"]
    ELSE IF \/ c.op = "erase"
            \/ c.op = "resize" /\ c.new_capacity < pre.capacity
            \/ ~w.open
         THEN Unwatched(w.key)
         ELSE [key |-> w.key, others |-> w.others \cup touched(c, res),
               cap |-> w.cap, open |-> TRUE,
               lost |-> IF w.key \in list_keys(pre) \ list_keys(post)
                        THEN leaves(w.key, c, pre) ELSE w.lost]

\* ---------------------------------------------- single-caller specification
\* One caller, one whole call per step.

\* call c, made in the current state, ends with outcome o
Returns(c, o) ==
    /\ Set(o.state)
    /\ status' = IF o.res = Aborted THEN "aborted" ELSE "ok"
    /\ failures' = IF o.res = BadAlloc THEN failures + 1 ELSE failures
    /\ last' = [call |-> c, res |-> o.res, pre |-> Cur]
    /\ evicted' = evicted_after(evicted, c, Cur, o.state)
    /\ written' = written_after(written, c, o.res, o.state)
    /\ UNCHANGED <<watch, threadVars>>

\* call c ends with an exception that nothing catches: std::terminate
Uncaught(c, o) ==
    /\ Set(o.state)
    /\ status' = "aborted"
    /\ failures' = failures + 1
    /\ last' = [call |-> c, res |-> o.res, pre |-> Cur]
    /\ evicted' = evicted_after(evicted, c, Cur, o.state)
    /\ written' = written_after(written, c, o.res, o.state)
    /\ UNCHANGED <<watch, threadVars>>

Get(key) ==
    /\ status = "ok"
    /\ \E o \in get(Cur, key) : Returns(Call("get", key, 0, 0), o)

Put(key, value) ==
    /\ status = "ok"
    /\ \E o \in put(Cur, key, value) : Returns(Call("put", key, value, 0), o)

Erase(key) ==
    /\ status = "ok"
    /\ \E o \in erase(Cur, key) : Returns(Call("erase", key, 0, 0), o)

Resize(new_capacity) ==
    /\ status = "ok"
    /\ \E o \in resize(Cur, new_capacity) :
          Returns(Call("resize", 0, 0, new_capacity), o)

\* a get that ends with std::bad_alloc; the caller catches it and goes on
GetFails(key) ==
    /\ status = "ok"
    /\ failures < MaxFailures
    /\ \E o \in get_failing(Cur, key) : Returns(Call("get", key, 0, 0), o)

\* a put that ends with std::bad_alloc: a caller that catches it goes on;
\* main calls put outside its try blocks and the process is terminated
PutFails(key, value) ==
    /\ status = "ok"
    /\ failures < MaxFailures
    /\ \E o \in put_failing(Cur, key, value) :
          \/ Returns(Call("put", key, value, 0), o)
          \/ Uncaught(Call("put", key, value, 0), o)

InitThreads ==
    /\ cache_mutex = Unlocked
    /\ pc = [t \in Threads |-> "idle"]
    /\ call = [t \in Threads |-> NoCall]
    /\ it = [t \in Threads |-> End]
    /\ ret = NoResult
    /\ snap = LRUCache(0)

Init ==
    /\ \E c \in Capacities : Set0(c)
    /\ status = "ok"
    /\ last = [call |-> NoCall, res |-> Void, pre |-> LRUCache(0)]
    /\ evicted = {}
    /\ written = EmptyFn
    /\ failures = 0
    /\ watch = Unwatched(0)
    /\ InitThreads

Next ==
    \/ \E k \in Keys : Get(k)
    \/ \E k \in Keys, v \in Values : Put(k, v)
    \/ \E k \in Keys : Erase(k)
    \/ \E n \in Capacities : Resize(n)

Spec == Init /\ [][Next]_vars

\* The single caller, with allocations that may fail inside get and put.
\* erase and resize allocate nothing.
NextFail ==
    \/ \E k \in Keys : Get(k)
    \/ \E k \in Keys, v \in Values : Put(k, v)
    \/ \E k \in Keys : Erase(k)
    \/ \E n \in Capacities : Resize(n)
    \/ \E k \in Keys : GetFails(k)
    \/ \E k \in Keys, v \in Values : PutFails(k, v)

SpecFail == Init /\ [][NextFail]_vars


\* The single caller with one key observed. The history of the last call is
\* not kept here: the observation carries what the retention property needs.
Observed(c, o) ==
    /\ Set(o.state)
    /\ status' = IF o.res = Aborted THEN "aborted" ELSE "ok"
    /\ watch' = watch_after(watch, c, o.res, Cur, o.state)
    /\ UNCHANGED <<last, evicted, written, failures, threadVars>>

GetLRU(key) ==
    /\ status = "ok"
    /\ \E o \in get(Cur, key) : Observed(Call("get", key, 0, 0), o)

PutLRU(key, value) ==
    /\ status = "ok"
    /\ \E o \in put(Cur, key, value) : Observed(Call("put", key, value, 0), o)

EraseLRU(key) ==
    /\ status = "ok"
    /\ \E o \in erase(Cur, key) : Observed(Call("erase", key, 0, 0), o)

ResizeLRU(new_capacity) ==
    /\ status = "ok"
    /\ \E o \in resize(Cur, new_capacity) :
          Observed(Call("resize", 0, 0, new_capacity), o)

InitLRU ==
    /\ \E c \in Capacities : Set0(c)
    /\ status = "ok"
    /\ last = [call |-> NoCall, res |-> Void, pre |-> LRUCache(0)]
    /\ evicted = {}
    /\ written = EmptyFn
    /\ failures = 0
    /\ \E k \in Keys : watch = Unwatched(k)
    /\ InitThreads

NextLRU ==
    \/ \E k \in Keys : GetLRU(k)
    \/ \E k \in Keys, v \in Values : PutLRU(k, v)
    \/ \E k \in Keys : EraseLRU(k)
    \/ \E n \in Capacities : ResizeLRU(n)

SpecLRU == InitLRU /\ [][NextLRU]_vars


\* --------------------------------------------------- threaded specification
\* Threads call the member functions concurrently; every statement is a step.
\* pc[t] is "idle" outside a call, "lock" while t blocks in the constructor
\* of std::lock_guard, and names the next statement while t owns the mutex.

\* Mutant of mutex_free: the guard is not constructed, nothing is waited for.
mutex_ignored == TRUE

\* std::mutex::lock() returns only when no thread owns the mutex
mutex_free == cache_mutex = Unlocked

ThreadCalls ==
    {Call("get", k, 0, 0) : k \in 1..ThreadKeys}
    \cup {Call("put", k, v, 0) : k \in 1..ThreadKeys, v \in 1..ThreadValues}
    \cup {Call("erase", k, 0, 0) : k \in 1..ThreadKeys}
    \cup {Call("resize", 0, 0, n) : n \in 0..ThreadCapacity}

\* the statements executed with the mutex owned
Locked ==
    {"find", "throw", "splice", "return", "assign", "full", "evict", "pop",
     "emplace", "index", "list_erase", "index_erase", "loop", "set_capacity",
     "unlock"}

Goto(t, label) == pc' = [pc EXCEPT ![t] = label]

\* a statement of thread t that does not end its call
Step(t, label) ==
    /\ Goto(t, label)
    /\ ret' = NoResult
    /\ UNCHANGED <<status, cache_mutex, call, snap, histVars>>

\* ~lock_guard() on the way out of the call, which yields res
Release(t, res) ==
    /\ cache_mutex' = Unlocked
    /\ Goto(t, "idle")
    /\ call' = [call EXCEPT ![t] = NoCall]
    /\ it' = [it EXCEPT ![t] = End]
    /\ snap' = LRUCache(0)
    /\ ret' = res
    /\ UNCHANGED <<status, histVars>>

\* the process is killed: no thread takes another step
Abort ==
    /\ status' = "aborted"
    /\ ret' = Aborted
    /\ UNCHANGED <<cacheVars, cache_mutex, pc, call, it, snap, histVars>>

At(t, label) == status = "ok" /\ pc[t] = label

\* thread t calls a member function and reaches its first line
Invoke(t) ==
    /\ At(t, "idle")
    /\ Step(t, "lock")
    /\ UNCHANGED <<cacheVars, it>>

\* std::lock_guard<std::mutex> lock(cache_mutex).  Which call t is making
\* is recorded here: nothing of it has been read before.
Acquire(t, c) ==
    /\ At(t, "lock")
    /\ mutex_free
    /\ cache_mutex' = t
    /\ call' = [call EXCEPT ![t] = c]
    /\ snap' = Cur
    /\ Goto(t, IF c.op = "resize" THEN "loop" ELSE "find")
    /\ ret' = NoResult
    /\ UNCHANGED <<cacheVars, status, it, histVars>>

\* auto it = cache_map.find(key); and the if that follows
Find(t) ==
    /\ At(t, "find")
    /\ LET i == find(Cur, call[t].key) IN
       /\ it' = [it EXCEPT ![t] = i]
       /\ Step(t, CASE call[t].op = "get" ->
                          IF i = End THEN "throw" ELSE "splice"
                    [] call[t].op = "put" ->
                          IF i # End THEN "splice" ELSE "full"
                    [] OTHER ->
                          IF i # End THEN "list_erase" ELSE "unlock")
    /\ UNCHANGED cacheVars

\* throw std::range_error("Key not found");
Throw(t) ==
    /\ At(t, "throw")
    /\ Release(t, NotFound)
    /\ UNCHANGED cacheVars

\* usage_list.splice(usage_list.begin(), usage_list, it->second);
Splice(t) ==
    /\ At(t, "splice")
    /\ Set(splice_begin(Cur, it[t]))
    /\ Step(t, IF call[t].op = "get" THEN "return" ELSE "assign")
    /\ UNCHANGED it

\* return it->second->second;
ReturnValue(t) ==
    /\ At(t, "return")
    /\ Release(t, Value(heap[it[t]].second))
    /\ UNCHANGED cacheVars

\* it->second->second = value; return;
AssignValue(t) ==
    /\ At(t, "assign")
    /\ Set(set_value(Cur, it[t], call[t].value))
    /\ Step(t, "unlock")
    /\ UNCHANGED it

\* if (usage_list.size() == capacity)
Full(t) ==
    /\ At(t, "full")
    /\ Step(t, IF size(Cur) = capacity THEN "evict" ELSE "emplace")
    /\ UNCHANGED <<cacheVars, it>>

\* auto last = usage_list.end(); last--; cache_map.erase(last->first);
\* On an empty list this is undefined: see put_evict_empty.
EvictIndex(t) ==
    /\ At(t, "evict")
    /\ IF usage_list # <<>>
       THEN /\ Set(map_erase(Cur, heap[back(Cur)].first))
            /\ Step(t, "pop")
            /\ UNCHANGED it
       ELSE \/ Abort
            \/ \E g \in Keys :
                /\ Set(map_erase(Cur, g))
                /\ Step(t, "pop")
                /\ UNCHANGED it

\* usage_list.pop_back();
\* On an empty list this is undefined: see put_evict_empty.
PopBack(t) ==
    /\ At(t, "pop")
    /\ IF usage_list # <<>>
       THEN /\ Set(pop_back(Cur))
            /\ Step(t, IF call[t].op = "put" THEN "emplace" ELSE "loop")
            /\ UNCHANGED it
       ELSE \/ Abort
            \/ /\ Step(t, "emplace")
               /\ UNCHANGED <<cacheVars, it>>

\* usage_list.emplace_front(key, value);
Emplace(t) ==
    /\ At(t, "emplace")
    /\ Set(emplace_front(Cur, call[t].key, call[t].value))
    /\ Step(t, "index")
    /\ UNCHANGED it

\* cache_map[key] = usage_list.begin();
IndexNew(t) ==
    /\ At(t, "index")
    /\ Set(map_set_begin(Cur, call[t].key))
    /\ Step(t, "unlock")
    /\ UNCHANGED it

\* usage_list.erase(it->second);
ListErase(t) ==
    /\ At(t, "list_erase")
    /\ Set(list_erase(Cur, it[t]))
    /\ Step(t, "index_erase")
    /\ UNCHANGED it

\* cache_map.erase(it);
IndexErase(t) ==
    /\ At(t, "index_erase")
    /\ Set(map_erase(Cur, call[t].key))
    /\ Step(t, "unlock")
    /\ UNCHANGED it

\* while (usage_list.size() > new_capacity)
Loop(t) ==
    /\ At(t, "loop")
    /\ Step(t, IF size(Cur) > call[t].new_capacity
               THEN "evict" ELSE "set_capacity")
    /\ UNCHANGED <<cacheVars, it>>

\* capacity = new_capacity;
SetCapacity(t) ==
    /\ At(t, "set_capacity")
    /\ Set([Cur EXCEPT !.capacity = call[t].new_capacity])
    /\ Step(t, "unlock")
    /\ UNCHANGED it

\* the closing brace of put, erase and resize: ~lock_guard()
Unlock(t) ==
    /\ At(t, "unlock")
    /\ Release(t, Void)
    /\ UNCHANGED cacheVars

\* the steps of a thread that is inside a call
Run(t) ==
    \/ \E c \in ThreadCalls : Acquire(t, c)
    \/ Find(t)
    \/ Throw(t)
    \/ Splice(t)
    \/ ReturnValue(t)
    \/ AssignValue(t)
    \/ Full(t)
    \/ EvictIndex(t)
    \/ PopBack(t)
    \/ Emplace(t)
    \/ IndexNew(t)
    \/ ListErase(t)
    \/ IndexErase(t)
    \/ Loop(t)
    \/ SetCapacity(t)
    \/ Unlock(t)

InitMT ==
    /\ \E c \in 0..ThreadCapacity : Set0(c)
    /\ status = "ok"
    /\ last = [call |-> NoCall, res |-> Void, pre |-> LRUCache(0)]
    /\ evicted = {}
    /\ written = EmptyFn
    /\ failures = 0
    /\ watch = Unwatched(0)
    /\ InitThreads

NextMT == \E t \in Threads : Invoke(t) \/ Run(t)

SpecMT == InitMT /\ [][NextMT]_vars

\* The scheduler runs every thread that can take a step; no thread is obliged
\* to make another call.
FairSpecMT == SpecMT /\ \A t \in Threads : WF_vars(Run(t))

\* =================================================================== claims
IsCall(op) == last.call.op = op

\* ---- C1
\* C1: whatever the initial capacity (0 included) and whatever calls were
\* made, each call completes and leaves no more entries in the recency
\* sequence than the capacity allows.
CapacityInvariant ==
    /\ last.res # Aborted
    /\ Len(usage_list) <= capacity

\* ---- C2
\* C2: after every completed call the keys of cache_map are the keys of
\* usage_list, no key is held by two entries of usage_list, and the record of
\* each key points at a live entry of usage_list that holds that key.
IndexSequenceConsistency ==
    /\ \A i \in 1..Len(usage_list) : usage_list[i] \in DOMAIN heap
    /\ \A k \in DOMAIN cache_map : cache_map[k] \in DOMAIN heap
    /\ list_keys(Cur) = DOMAIN cache_map
    /\ \A i, j \in 1..Len(usage_list) :
          i # j => heap[usage_list[i]].first # heap[usage_list[j]].first
    /\ \A k \in DOMAIN cache_map :
          /\ heap[cache_map[k]].first = k
          /\ \E i \in 1..Len(usage_list) : usage_list[i] = cache_map[k]

\* an erase of a resident key has left two entries behind
IndexSequenceWitness ==
    /\ IsCall("erase")
    /\ last.call.key \in resident(last.pre)
    /\ Len(usage_list) = 2

\* ---- C3
\* put(k, v) was the last call, k was absent and the cache was full
PutAtFull ==
    /\ IsCall("put")
    /\ last.call.key \notin resident(last.pre)
    /\ size(last.pre) = last.pre.capacity

\* exactly the back entry of the state before is gone, the new pair is in
EvictedBackOnly ==
    /\ last.res = Void
    /\ last.pre.usage_list # <<>>
    /\ entries(last.pre) \ entries(Cur) = {last.pre.heap[back(last.pre)]}
    /\ entries(Cur) =
          (entries(last.pre) \ {last.pre.heap[back(last.pre)]})
             \cup {[first |-> last.call.key, second |-> last.call.value]}
    /\ Len(usage_list) = size(last.pre)

\* C3 as stated: a put of an absent key made when size equals capacity
\* removes exactly one entry, the back one, and keeps all the others.
EvictionCorrectness == PutAtFull => EvictedBackOnly

\* C3 amended: the same, for a capacity greater than 0.
EvictionCorrectnessPositive ==
    (PutAtFull /\ last.pre.capacity > 0) => EvictedBackOnly

\* a put of a new key into a full cache of two entries
EvictionWitness ==
    /\ PutAtFull
    /\ last.pre.capacity = 2
    /\ last.res = Void

\* ---- C4
\* the last call was a get that found its key or a put on a resident key
Touched ==
    \/ IsCall("get") /\ last.res.kind = "value"
    \/ IsCall("put") /\ last.call.key \in resident(last.pre)

\* C4: after a get hit or a put on a resident key k, k is at the front, and
\* the entry that was at the front before, if it is not k, is now second.
RecencyOrdering ==
    Touched =>
        /\ usage_list # <<>>
        /\ heap[usage_list[1]].first = last.call.key
        /\ LET f == last.pre.usage_list[1] IN
           last.pre.heap[f].first # last.call.key =>
              /\ Len(usage_list) >= 2
              /\ usage_list[2] = f
              /\ heap[f].first = last.pre.heap[f].first

\* a touch of the back entry of a list of three
RecencyWitness ==
    /\ Touched
    /\ size(last.pre) = 3
    /\ last.pre.heap[back(last.pre)].first = last.call.key

\* ---- C5
\* C5: with capacity 0 every put completes and leaves the cache empty.
ZeroCapacityPutStoresNothing ==
    (IsCall("put") /\ last.pre.capacity = 0) =>
        /\ last.res = Void
        /\ usage_list = <<>>
        /\ DOMAIN cache_map = {}

\* ---- C9
\* C9: a get of an absent key fails with NotFound and changes nothing.
MissLeavesStateUntouched ==
    (IsCall("get") /\ last.call.key \notin list_keys(last.pre)) =>
        /\ last.res = NotFound
        /\ Cur = last.pre

\* a miss on a cache that holds other keys
MissWitness ==
    /\ IsCall("get")
    /\ last.res = NotFound
    /\ size(last.pre) = 2

\* ---- C10
\* C10: a key evicted by capacity pressure and not put since has no index
\* record, and a get of it fails with NotFound.
MissAfterEviction ==
    \A k \in evicted :
        /\ find(Cur, k) = End
        /\ (IsCall("get") /\ last.call.key = k) => last.res = NotFound

\* a get of a key that a put or a resize evicted earlier
MissAfterEvictionWitness ==
    /\ IsCall("get")
    /\ last.call.key \in evicted
    /\ last.res = NotFound
    /\ usage_list # <<>>


\* ---- C6
\* a step of the threaded cache that some one-call-at-a-time cache can make:
\* a thread that does not own the mutex leaves the cache alone, and a call
\* that ends leaves the state and yields the result that the whole call,
\* made alone in the state found when the mutex was taken, can leave and yield
LinearStep ==
    /\ cache_mutex = Unlocked => UNCHANGED cacheVars
    /\ \A t \in Threads :
          (pc[t] \in Locked /\ pc'[t] = "idle") =>
              Outcome(Cur', ret') \in outcomes(snap, call[t])
    /\ (status = "ok" /\ status' = "aborted") =>
          /\ cache_mutex \in Threads
          /\ Outcome(Cur', Aborted) \in outcomes(snap, call[cache_mutex])

\* with the mutex free the process is alive, the entries are no more than
\* the capacity, and index and sequence agree
InvariantsWhenFree ==
    cache_mutex = Unlocked =>
        /\ status = "ok"
        /\ Len(usage_list) <= capacity
        /\ IndexSequenceConsistency

\* the calls take effect one at a time, in the order the mutex was taken
Serialized == [][LinearStep]_vars

\* C6: for threads calling get, put, erase and resize concurrently, results
\* and final state are those of the calls made one at a time in some order
\* that respects precedence, and the capacity and index-sequence invariants
\* hold whenever the mutex is free.
Linearizability == Serialized /\ []InvariantsWhenFree

\* ---- C7
\* C7: while a thread is between the first and the last statement of put or
\* of resize, no other thread is at a statement that reads or writes the
\* list, the index or the capacity.
Atomicity ==
    \A t \in Threads :
        (pc[t] \in Locked /\ call[t].op \in {"put", "resize"}) =>
            /\ cache_mutex = t
            /\ \A u \in Threads \ {t} : pc[u] \notin Locked

\* a put has evicted and not yet inserted, and another thread is calling
AtomicityWitness ==
    \E t, u \in Threads :
        /\ pc[t] = "emplace"
        /\ call[t].op = "put"
        /\ size(Cur) < size(snap)
        /\ pc[u] = "lock"

\* ---- C8
\* a thread outside a call does not own the mutex
ReleasedOnExit == \A t \in Threads : pc[t] = "idle" => cache_mutex # t

\* when a thread waits for the mutex, the mutex is free or its owner has a
\* next statement to run
NoStuckWaiter ==
    (\E t \in Threads : pc[t] = "lock") =>
        /\ status = "ok"
        /\ \/ cache_mutex = Unlocked
           \/ (cache_mutex \in Threads /\ pc[cache_mutex] \in Locked)

\* some thread is inside a call
SomeCallPending == \E t \in Threads : pc[t] # "idle"

\* the step just taken ended a call
SomeCallCompleted == ret \in {Void, NotFound} \cup {Value(v) : v \in Values}

\* C8: every exit path releases the mutex, no thread waits for a mutex that
\* nobody can release, and when threads are scheduled fairly a pending call
\* is followed by the completion of some call.
LockReleaseAndProgress ==
    /\ []ReleasedOnExit
    /\ []NoStuckWaiter
    /\ (SomeCallPending ~> SomeCallCompleted)


\* ---- C11
\* the last call was resize(N) with N below the size of the cache
Shrunk ==
    /\ IsCall("resize")
    /\ last.call.new_capacity < size(last.pre)

\* C11: resize(N) with N less than the size leaves exactly N entries: the N
\* that were nearest the front, in the same order and with their values, each
\* with its index record; the capacity is N.
ResizeShrink ==
    Shrunk =>
        /\ last.res = Void
        /\ Len(usage_list) = last.call.new_capacity
        /\ pair_seq(Cur) = SubSeq(pair_seq(last.pre), 1, last.call.new_capacity)
        /\ resident(Cur) = list_keys(Cur)
        /\ capacity = last.call.new_capacity

\* a resize from three entries to one
ResizeShrinkWitness ==
    /\ Shrunk
    /\ size(last.pre) = 3
    /\ last.call.new_capacity = 1

\* ---- C12
\* the last call was resize(N) with N at least the size of the cache
Grown ==
    /\ IsCall("resize")
    /\ last.call.new_capacity >= size(last.pre)

\* the last call was a put of an absent key into a cache below its capacity
PutBelowCapacity ==
    /\ IsCall("put")
    /\ last.call.key \notin resident(last.pre)
    /\ size(last.pre) < last.pre.capacity

\* C12: resize(N) with N at least the size leaves entries, values, order and
\* index as they were and sets the capacity to N; a put of a new key made
\* while the size is below the capacity evicts nothing.
ResizeGrow ==
    /\ Grown =>
          /\ last.res = Void
          /\ pair_seq(Cur) = pair_seq(last.pre)
          /\ cache_map = last.pre.cache_map
          /\ capacity = last.call.new_capacity
    /\ PutBelowCapacity =>
          /\ SubSeq(pair_seq(Cur), 2, Len(usage_list)) = pair_seq(last.pre)
          /\ Len(usage_list) = size(last.pre) + 1

\* a resize to exactly the size of a cache of two entries
ResizeGrowWitness ==
    /\ Grown
    /\ size(last.pre) = 2
    /\ last.call.new_capacity = 2
    /\ last.pre.capacity = 3

\* ---- C13
\* C13: erase of an absent key returns normally and changes nothing, and in
\* every state erasing a key a second time changes nothing more.
EraseAbsentNoOp ==
    /\ (IsCall("erase") /\ last.call.key \notin list_keys(last.pre)) =>
          /\ last.res = Void
          /\ Cur = last.pre
    /\ \A k \in Keys : \A o \in erase(Cur, k) :
          erase(o.state, k) = {Outcome(o.state, Void)}

\* an erase of an absent key on a cache that holds two others
EraseAbsentWitness ==
    /\ IsCall("erase")
    /\ last.call.key \notin list_keys(last.pre)
    /\ size(last.pre) = 2

\* ---- C14
\* the last call was a put on a resident key
Updated ==
    /\ IsCall("put")
    /\ last.call.key \in resident(last.pre)

\* the pairs of S, front first, without the pair of key k
OthersOf(S, k) ==
    LET NotK(p) == p.first # k IN SelectSeq(pair_seq(S), NotK)

\* C14: a put on a resident key k, also at full capacity, evicts nothing:
\* the resident keys, the size and the capacity stay, every other entry keeps
\* its value and its place among the others, k holds v and is at the front.
UpdateKeepsCapacity ==
    Updated =>
        /\ last.res = Void
        /\ list_keys(Cur) = list_keys(last.pre)
        /\ resident(Cur) = resident(last.pre)
        /\ Len(usage_list) = size(last.pre)
        /\ capacity = last.pre.capacity
        /\ OthersOf(Cur, last.call.key) = OthersOf(last.pre, last.call.key)
        /\ pair_seq(Cur)[1] =
              [first |-> last.call.key, second |-> last.call.value]

\* an update with a new value of a key that is not at the back of a full cache
UpdateWitness ==
    /\ Updated
    /\ size(last.pre) = last.pre.capacity
    /\ size(last.pre) = 2
    /\ key_seq(last.pre)[1] = last.call.key
    /\ last.pre.heap[last.pre.cache_map[last.call.key]].second # last.call.value


\* ---- C15
\* the last call was a put that ran its eviction block on an empty list:
\* it stepped before begin() and popped the back of an empty sequence
PoppedEmpty ==
    /\ IsCall("put")
    /\ last.call.key \notin resident(last.pre)
    /\ size(last.pre) = last.pre.capacity
    /\ last.pre.usage_list = <<>>

\* C15: for every capacity, 0 included, put, erase and resize return
\* normally and perform no invalid operation; only get fails, with NotFound,
\* and only for an absent key.
OnlyGetFails ==
    /\ last.call.op \in {"put", "erase", "resize"} => last.res = Void
    /\ ~PoppedEmpty
    /\ last.res # Aborted
    /\ last.res = NotFound =>
          (IsCall("get") /\ last.call.key \notin resident(last.pre))

\* ---- C17
\* the last call was an erase of a resident key
Erased ==
    /\ IsCall("erase")
    /\ last.call.key \in resident(last.pre)

\* C17: erase of a resident key k removes k from sequence and index, makes
\* the size one less, leaves the other entries, their values, their order and
\* the capacity as they were, and a get of k then fails with NotFound.
EraseResident ==
    Erased =>
        /\ last.res = Void
        /\ pair_seq(Cur) = OthersOf(last.pre, last.call.key)
        /\ last.call.key \notin list_keys(Cur)
        /\ resident(Cur) = resident(last.pre) \ {last.call.key}
        /\ \A k \in resident(Cur) : cache_map[k] = last.pre.cache_map[k]
        /\ Len(usage_list) = size(last.pre) - 1
        /\ capacity = last.pre.capacity
        /\ get(Cur, last.call.key) = {Outcome(Cur, NotFound)}

\* an erase of the middle entry of three
EraseResidentWitness ==
    /\ Erased
    /\ size(last.pre) = 3
    /\ key_seq(last.pre)[2] = last.call.key

\* ---- C19
\* the last call was a get that found its key, or a put that returned
Moved ==
    \/ IsCall("get") /\ last.res.kind = "value"
    \/ IsCall("put") /\ last.res = Void

\* the keys of S, front first, that are in the set K
KeysAmong(S, K) ==
    LET InK(k) == k \in K IN SelectSeq(key_seq(S), InK)

\* C19: a get hit or a put moves only the touched key, to the front; the
\* other keys that are still resident are in the order they were in before.
StableRelativeOrder ==
    Moved =>
        LET rest == list_keys(Cur) \ {last.call.key} IN
        /\ key_seq(Cur) = <<last.call.key>> \o KeysAmong(Cur, rest)
        /\ KeysAmong(Cur, rest) = KeysAmong(last.pre, rest)

\* a touch of the middle key of three
StableOrderWitness ==
    /\ Moved
    /\ size(last.pre) = 3
    /\ key_seq(last.pre)[2] = last.call.key


\* ---- C18
\* C18: a get that finds its key returns the value of the latest put of
\* that key, and in every state each resident key holds the value of the
\* latest put of it: no call on another key and no resize changes it.
ReadYourWrites ==
    /\ (IsCall("get") /\ last.res.kind = "value") =>
          /\ last.call.key \in DOMAIN written
          /\ last.res.value = written[last.call.key]
    /\ \A k \in resident(Cur) :
          /\ k \in DOMAIN written
          /\ heap[cache_map[k]].second = written[k]

\* a get returns a value that a put on a resident key stored, with another
\* key holding a different value
ReadYourWritesWitness ==
    /\ IsCall("get")
    /\ last.res.kind = "value"
    /\ size(last.pre) = 2
    /\ \E k \in resident(Cur) :
          heap[cache_map[k]].second # last.res.value


\* ---- C16
\* C16: when a mutating call ends with an allocation failure, the state it
\* leaves to a caller that goes on still satisfies index-sequence
\* consistency.
FailureConsistency ==
    (/\ last.res = BadAlloc
     /\ last.call.op \in {"put", "erase", "resize"}
     /\ status = "ok") =>
        IndexSequenceConsistency


\* ---- C20
\* C20: inside a window opened by a touch of key k at capacity C > 0 and
\* not closed by an erase or a shrinking resize, k is resident and get(k)
\* hits while fewer than C distinct other keys have been touched, and k
\* leaves the sequence only in a put of a new key that finds k at the back.
LRURetention ==
    (watch.open /\ watch.cap > 0) =>
        /\ Cardinality(watch.others) < watch.cap =>
              /\ watch.key \in resident(Cur)
              /\ \A o \in get(Cur, watch.key) : o.res.kind = "value"
        /\ watch.lost # "other"
        /\ watch.lost = "back" => Cardinality(watch.others) >= watch.cap

\* the observed key sits at the back of a full cache of capacity 2 with one
\* other key touched since, one touch short of its eviction
LRURetentionWitness ==
    /\ watch.open
    /\ watch.cap = 2
    /\ capacity = 2
    /\ Cardinality(watch.others) = 1
    /\ size(Cur) = 2
    /\ heap[back(Cur)].first = watch.key

====
